---- MODULE Spec2Model ----
(***************************************************************************)
(* MoodBeats Flask server (src/assets/ml/server/flask_server.py).          *)
(*                                                                         *)
(* The model covers the module-level artifacts (model1, scaler1, model2,   *)
(* scaler2, songs_df, MOOD_NAMES), the helper extract_features and the     *)
(* four request handlers predict_mood, recommend_songs, song_details and   *)
(* health_check, served by a threaded server (app.run(threaded=True)).     *)
(*                                                                         *)
(* Numbers.  Sensor samples are integers.  A statistic is kept as an exact *)
(* term [fn, args]: a reduced fraction ("num"), the square root of a       *)
(* reduced fraction ("sqrt"), or a function of the sample's power sums     *)
(* ("skew", "kurtosis") or of its histogram ("entropy").  Probabilities    *)
(* are integer numerators over ProbaScale; a blended probability is an     *)
(* integer numerator over WEIGHT_DEN * ProbaScale.                         *)
(*                                                                         *)
(* numpy arrays are sequences read with 0-based positions through At.      *)
(***************************************************************************)
EXTENDS Integers, Sequences, FiniteSets, TLC

\* ------------------------------------------------------------------ bounds

\* Probabilities returned by a classifier are multiples of 1/ProbaScale.
ProbaScale == 4
\* Longest heart-rate list a client sends in the feature-extraction runs.
MaxHrLen == 4
\* Longest flat accelerometer list a client sends in those runs.
MaxAccLen == 7

\* ------------------------------------------------------- program constants

N_CLASSES == 4
N_AXES == 3
N_STATS == 8
HIST_BINS == 10
SYNTH_SIZE == 30
SYNTH_BAND == 5
WEIGHT1 == 6
WEIGHT2 == 4
WEIGHT_DEN == 10

\* ------------------------------------------------------------ JSON values

\* A value of the request body: null (an absent key reads as None through
\* dict.get), a number, a string, or a list of values.
Null == [type |-> "null", num |-> 0, str |-> "", items |-> <<>>]
Num(v) == [type |-> "number", num |-> v, str |-> "", items |-> <<>>]
Str(s) == [type |-> "string", num |-> 0, str |-> s, items |-> <<>>]
List(xs) == [type |-> "list", num |-> 0, str |-> "", items |-> xs]

NumList(s) == List([i \in 1..Len(s) |-> Num(s[i])])
NestedList(rows) == List([i \in 1..Len(rows) |-> NumList(rows[i])])

\* Python truthiness, as used by `if not heart_rate` and `if not mood`.
Falsy(v) ==
    \/ v.type = "null"
    \/ v.type = "number" /\ v.num = 0
    \/ v.type = "string" /\ v.str = ""
    \/ v.type = "list" /\ Len(v.items) = 0

\* ------------------------------------------------------------- arithmetic

At(a, i) == a[i + 1]

Abs(x) == IF x < 0 THEN -x ELSE x

RECURSIVE Gcd(_, _)
Gcd(a, b) == IF b = 0 THEN a ELSE Gcd(b, a % b)

RECURSIVE SumPow(_, _)
SumPow(s, k) ==
    IF Len(s) = 0 THEN 0
    ELSE LET x == Head(s)
             p == CASE k = 1 -> x
                    [] k = 2 -> x * x
                    [] k = 3 -> x * x * x
                    [] OTHER -> x * x * x * x
         IN p + SumPow(Tail(s), k)

Range(s) == {s[i] : i \in 1..Len(s)}
SeqMin(s) == CHOOSE m \in Range(s) : \A x \in Range(s) : m <= x
SeqMax(s) == CHOOSE m \in Range(s) : \A x \in Range(s) : m >= x

\* The float n / d (d > 0), kept as a reduced fraction.
Rat(n, d) ==
    LET g == Gcd(Abs(n), d)
    IN [fn |-> "num", args |-> <<n \div g, d \div g>>]

Zero == Rat(0, 1)

\* ------------------------------------------------- the eight statistics

np_mean(x) == Rat(SumPow(x, 1), Len(x))

\* Population standard deviation: sqrt(mean(x^2) - mean(x)^2); 0.0 for
\* constant data.
np_std(x) ==
    LET n == Len(x)
        v == Rat(n * SumPow(x, 2) - SumPow(x, 1) * SumPow(x, 1), n * n)
    IN IF v.args[1] = 0 THEN Zero ELSE [fn |-> "sqrt", args |-> v.args]

np_min(x) == Rat(SeqMin(x), 1)
np_max(x) == Rat(SeqMax(x), 1)

\* np.sum(x**2) / len(x)
energy(x) == Rat(SumPow(x, 2), Len(x))

IsConstant(x) == SeqMin(x) = SeqMax(x)

\* scipy.stats.skew: m3 / m2^1.5 of the central moments, a function of the
\* power sums; nan for constant data.
skew(x) ==
    IF IsConstant(x) THEN [fn |-> "nan", args |-> <<>>]
    ELSE [fn |-> "skew",
          args |-> <<Len(x), SumPow(x, 1), SumPow(x, 2), SumPow(x, 3)>>]

\* scipy.stats.kurtosis (Fisher): m4 / m2^2 - 3; nan for constant data.
kurtosis(x) ==
    IF IsConstant(x) THEN [fn |-> "nan", args |-> <<>>]
    ELSE [fn |-> "kurtosis",
          args |-> <<Len(x), SumPow(x, 1), SumPow(x, 2), SumPow(x, 3),
                     SumPow(x, 4)>>]

\* np.histogram(x, bins=10, density=True)[0]: the counts of HIST_BINS equal
\* bins over [min, max] (over [min - 0.5, max + 0.5] when min = max), the
\* last bin closed on the right; density divides by n * width.  The result
\* is <<counts, n, width numerator, width denominator>>.
np_histogram(x) ==
    LET lo == SeqMin(x)
        hi == SeqMax(x)
        bin(v) == IF lo = hi THEN HIST_BINS \div 2
                  ELSE IF v = hi THEN HIST_BINS - 1
                  ELSE ((v - lo) * HIST_BINS) \div (hi - lo)
        counts == [b \in 1..HIST_BINS |->
                     Cardinality({i \in 1..Len(x) : bin(x[i]) = b - 1})]
    IN <<counts, Len(x), IF lo = hi THEN 1 ELSE hi - lo, HIST_BINS>>

\* scipy.stats.entropy(density + 1e-6): a function of the histogram.
entropy(h) == [fn |-> "entropy", args |-> h[1] \o <<h[2], h[3], h[4]>>]

\* The list of 8 statistics built at lines 47-56 (heart rate) and 72-81
\* (one accelerometer axis).
stat_features(x) ==
    << np_mean(x),
       np_std(x),
       np_min(x),
       np_max(x),
       energy(x),
       IF Len(x) > 2 THEN skew(x) ELSE Zero,
       IF Len(x) > 3 THEN kurtosis(x) ELSE Zero,
       entropy(np_histogram(x)) >>

\* ------------------------------------------------------ extract_features

\* np.array(acc_data) read in C order: the numbers of a flat list, or the
\* rows of a list of equal-length lists one after the other.
np_ravel(acc_data) ==
    LET items == acc_data.items
        RECURSIVE flat(_)
        flat(k) ==
            IF k > Len(items) THEN <<>>
            ELSE (IF items[k].type = "list"
                  THEN [j \in 1..Len(items[k].items) |-> items[k].items[j].num]
                  ELSE <<items[k].num>>) \o flat(k + 1)
    IN flat(1)

\* Mutant of reshape_rows: the array is filled column by column (order="F").
reshape_rows_fortran(flat) ==
    [r \in 1..(Len(flat) \div N_AXES) |->
        [c \in 1..N_AXES |-> flat[(c - 1) * (Len(flat) \div N_AXES) + r]]]

\* flat.reshape(-1, 3): row r holds elements 3r, 3r+1, 3r+2 (row-major).
\* Only defined when the size is a multiple of 3.
reshape_rows(flat) ==
    [r \in 1..(Len(flat) \div N_AXES) |->
        [c \in 1..N_AXES |-> flat[(r - 1) * N_AXES + c]]]

\* Mutant of acc_matrix: a flat list is padded with zeros to whole triples
\* instead of being refused.
acc_matrix_padding(acc_data) ==
    LET first == acc_data.items[1]
        flat == np_ravel(acc_data)
        pad == (N_AXES - (Len(flat) % N_AXES)) % N_AXES
    IN IF first.type = "list" /\ Len(first.items) = N_AXES
       THEN [error |-> "",
             rows |-> [r \in 1..Len(acc_data.items) |->
                         [c \in 1..N_AXES |-> acc_data.items[r].items[c].num]]]
       ELSE [error |-> "",
             rows |-> reshape_rows(flat \o [k \in 1..pad |-> 0])]

\* The [n_samples, 3] array of lines 62-67, or the ValueError numpy raises
\* from reshape(-1, 3) when the size is not a multiple of 3.
acc_matrix(acc_data) ==
    LET first == acc_data.items[1]
    IN IF first.type = "list" /\ Len(first.items) = N_AXES
       THEN [error |-> "",
             rows |-> [r \in 1..Len(acc_data.items) |->
                         [c \in 1..N_AXES |-> acc_data.items[r].items[c].num]]]
       ELSE LET flat == np_ravel(acc_data)
            IN IF Len(flat) % N_AXES # 0
               THEN [error |-> "cannot reshape array", rows |-> <<>>]
               ELSE [error |-> "", rows |-> reshape_rows(flat)]

\* acc_data[:, axis]
axis_column(rows, axis) == [r \in 1..Len(rows) |-> At(rows[r], axis)]

\* Mutant of acc_zeros: zeros for two axes only.
acc_zeros_two_axes == [k \in 1..(N_STATS * 2) |-> Zero]

\* [0] * (8 * 3)
acc_zeros == [k \in 1..(N_STATS * N_AXES) |-> Zero]

\* extract_features(hr_data, acc_data): hr_data is the numpy array of heart
\* rates (length >= 1), acc_data the request's accelerometer value (None or
\* a list).  The result is the 1 x 32 array (a sequence holding one row), or
\* the exception raised on the way.
extract_features(hr_data, acc_data) ==
    LET hr_features == stat_features(hr_data)
    IN IF acc_data.type # "null" /\ Len(acc_data.items) > 0
       THEN LET m == acc_matrix(acc_data)
            IN IF m.error # ""
               THEN [error |-> m.error, features |-> <<>>]
               ELSE [error |-> "",
                     features |->
                       << hr_features
                          \o stat_features(axis_column(m.rows, 0))
                          \o stat_features(axis_column(m.rows, 1))
                          \o stat_features(axis_column(m.rows, 2)) >>]
       ELSE [error |-> "", features |-> << hr_features \o acc_zeros >>]

\* ------------------------------------------------- the loaded artifacts

\* A fitted StandardScaler (joblib.load at lines 23, 25): transform checks
\* the row width against n_features_in and then standardises, (x - mean) /
\* scale; the standardised row is kept as the row with the fit parameters.
scaler_transform(scaler, X) ==
    IF Len(X[1]) # scaler.n_features_in
    THEN [error |-> "X has a different number of features", X |-> <<>>,
          mean |-> 0, scale |-> 1]
    ELSE [error |-> "", X |-> X, mean |-> scaler.mean, scale |-> scaler.scale]

\* A fitted 4-class classifier (joblib.load at lines 22, 24), kept as one
\* decision split on a standardised feature with a class distribution on
\* each side.  predict_proba(...)[0] is the distribution of the row's side.
predict_proba(model, scaled) ==
    LET x == At(scaled.X[1], model.feature)
    IN IF x.args[1] - scaled.mean * x.args[2]
            < model.threshold * scaled.scale * x.args[2]
       THEN model.left
       ELSE model.right

\* Mutant of np_argmax: the last position holding the maximum.
np_argmax_last(a) ==
    CHOOSE i \in 0..(Len(a) - 1) :
        /\ \A j \in 0..(Len(a) - 1) : At(a, j) <= At(a, i)
        /\ \A j \in (i + 1)..(Len(a) - 1) : At(a, j) < At(a, i)

\* np.argmax: the first position holding the maximum.
np_argmax(a) ==
    CHOOSE i \in 0..(Len(a) - 1) :
        /\ \A j \in 0..(Len(a) - 1) : At(a, j) <= At(a, i)
        /\ \A j \in 0..(i - 1) : At(a, j) < At(a, i)

\* model.predict(...)[0]: the class of highest probability.
predict(model, scaled) == np_argmax(predict_proba(model, scaled))

\* Mutant of np_argsort: descending order of value.
np_argsort_descending(a, ties) ==
    LET n == Len(a)
        rank(i) == CHOOSE p \in 1..n : ties[p] = i
        before(i, j) == \/ At(a, i) > At(a, j)
                        \/ At(a, i) = At(a, j) /\ rank(i) < rank(j)
    IN [p \in 1..n |->
          CHOOSE i \in 0..(n - 1) :
              Cardinality({j \in 0..(n - 1) : before(j, i)}) = p - 1]

\* Mutant of np_argsort: the values are not looked at, the positions come
\* back in the order the sort leaves equal keys.
np_argsort_keyless(a, ties) == [p \in 1..Len(a) |-> ties[p]]

\* np.argsort(a) (kind="quicksort", which numpy documents as not stable):
\* the positions of a in ascending order of value; positions holding equal
\* values come in the order this build's sort leaves them, `ties` (a
\* ranking of the positions).
np_argsort(a, ties) ==
    LET n == Len(a)
        rank(i) == CHOOSE p \in 1..n : ties[p] = i
        before(i, j) == \/ At(a, i) < At(a, j)
                        \/ At(a, i) = At(a, j) /\ rank(i) < rank(j)
    IN [p \in 1..n |->
          CHOOSE i \in 0..(n - 1) :
              Cardinality({j \in 0..(n - 1) : before(j, i)}) = p - 1]

\* Mutant of combine: the weights are swapped (0.4 * proba1 + 0.6 * proba2).
combine_swapped(proba1, proba2) ==
    [i \in 1..Len(proba1) |-> WEIGHT2 * proba1[i] + WEIGHT1 * proba2[i]]

\* 0.6 * proba1 + 0.4 * proba2, as numerators over WEIGHT_DEN * ProbaScale.
combine(proba1, proba2) ==
    [i \in 1..Len(proba1) |-> WEIGHT1 * proba1[i] + WEIGHT2 * proba2[i]]

\* Mutant of song_ranges: the ranges follow the order of MOOD_NAMES.
song_ranges_in_order(mood_index) ==
    <<20 * mood_index + 1, 20 * mood_index + 20>>

\* Mood index range of the song catalog (song_ranges, lines 169-174).
song_ranges(mood_index) ==
    CASE mood_index = 0 -> <<1, 20>>
      [] mood_index = 1 -> <<61, 80>>
      [] mood_index = 2 -> <<21, 40>>
      [] mood_index = 3 -> <<41, 60>>

\* Series.between(left, right), inclusive on both sides.
between(v, left, right) == left <= v /\ v <= right

\* songs_df[songs_df['index'].between(start_idx, end_idx)]: the rows whose
\* index lies in the range, in the frame's order.
rows_between(df, start_idx, end_idx) ==
    LET keep(row) == between(row.index, start_idx, end_idx)
    IN SelectSeq(df, keep)

\* songs_df[songs_df['index'] == song_id]
rows_equal(df, song_id) ==
    LET keep(row) == row.index = song_id
    IN SelectSeq(df, keep)

\* MOOD_NAMES.index(mood)
list_index(names, mood) ==
    CHOOSE i \in 0..(Len(names) - 1) :
        /\ At(names, i) = mood
        /\ \A j \in 0..(i - 1) : At(names, j) # mood

\* ---------------------------------------------- song_details' file name

Digits == <<"0", "1", "2", "3", "4", "5", "6", "7", "8", "9">>

\* str.isalnum on one character (the ASCII letters and digits).
Alnum ==
    {"a", "b", "c", "d", "e", "f", "g", "h", "i", "j", "k", "l", "m", "n",
     "o", "p", "q", "r", "s", "t", "u", "v", "w", "x", "y", "z", "A", "B",
     "C", "D", "E", "F", "G", "H", "I", "J", "K", "L", "M", "N", "O", "P",
     "Q", "R", "S", "T", "U", "V", "W", "X", "Y", "Z"} \cup Range(Digits)

\* ''.join(c if c.isalnum() else '_' for c in text)
sanitize(text) ==
    [i \in 1..Len(text) |-> IF text[i] \in Alnum THEN text[i] ELSE "_"]

\* text.split(',')[0]
first_field(text) ==
    LET commas == {i \in 1..Len(text) : text[i] = ","}
        stop == IF commas = {} THEN Len(text) + 1
                ELSE CHOOSE i \in commas : \A j \in commas : i <= j
    IN SubSeq(text, 1, stop - 1)

\* str(n) for n >= 0
RECURSIVE str_int(_)
str_int(n) ==
    IF n < 10 THEN <<Digits[n + 1]>>
    ELSE str_int(n \div 10) \o <<Digits[(n % 10) + 1]>>

\* str(song_id).zfill(2)
zfill2(n) == IF Len(str_int(n)) < 2 THEN <<"0">> \o str_int(n) ELSE str_int(n)

\* f"{str(song_id).zfill(2)}_{song_title}_{artist_name}" under the samples
\* directory, with the .mp3 suffix (lines 206-213).
audio_file(song_id, details) ==
    zfill2(song_id) \o <<"_">> \o sanitize(details.title) \o <<"_">>
        \o sanitize(first_field(details.artists)) \o <<".", "m", "p", "3">>

\* ------------------------------------------------------------------ state

Threads == {"t1", "t2"}

VARIABLES
    model1, scaler1, model2, scaler2,   \* the loaded artifacts (lines 22-25)
    songs_df,                           \* the song table (lines 33, 37)
    MOOD_NAMES,                         \* line 40
    quicksort_ties,                     \* how this build's sort orders equal keys
    pc,                                 \* per thread: where its handler stands
    request,                            \* per thread: the request being served
    local,                              \* per thread: the handler's local variables
    response,                           \* per thread: the response produced
    calls                               \* per thread: uses of the collaborators

shared == <<model1, scaler1, model2, scaler2, songs_df, MOOD_NAMES>>
vars == <<model1, scaler1, model2, scaler2, songs_df, MOOD_NAMES,
          quicksort_ties, pc, request, local, response, calls>>

NoRequest ==
    [endpoint |-> "", heart_rate |-> Null, accelerometer |-> Null,
     mood |-> Null, song_id |-> 0]
NoLocal ==
    [hr_sequence |-> <<>>, features |-> <<>>, scaled1 |-> <<>>,
     scaled2 |-> <<>>, pred1 |-> 0, pred2 |-> 0, proba1 |-> <<>>,
     proba2 |-> <<>>]
NoResponse == [status |-> 0, body |-> [pending |-> TRUE]]
NoCalls == [scaler |-> 0, model |-> 0, catalog |-> 0]

PredictRequest(heart_rate, accelerometer) ==
    [endpoint |-> "predict_mood", heart_rate |-> heart_rate,
     accelerometer |-> accelerometer, mood |-> Null, song_id |-> 0]
RecommendRequest(mood) ==
    [endpoint |-> "recommend_songs", heart_rate |-> Null,
     accelerometer |-> Null, mood |-> mood, song_id |-> 0]
DetailsRequest(song_id) ==
    [endpoint |-> "song_details", heart_rate |-> Null,
     accelerometer |-> Null, mood |-> Null, song_id |-> song_id]
HealthRequest ==
    [endpoint |-> "health_check", heart_rate |-> Null,
     accelerometer |-> Null, mood |-> Null, song_id |-> 0]

\* jsonify(body), status
Reply(t, status, body) ==
    /\ response' = [response EXCEPT ![t] = [status |-> status, body |-> body]]
    /\ pc' = [pc EXCEPT ![t] = "done"]

\* --------------------------------------------------------------- handlers

\* A request reaches the server and a worker thread takes it (threaded=True:
\* one thread per request); request.json is the parsed body.
Receive(t, requests) ==
    /\ pc[t] = "idle"
    /\ \E r \in requests :
        /\ request' = [request EXCEPT ![t] = r]
        /\ pc' = [pc EXCEPT ![t] = r.endpoint]
    /\ UNCHANGED <<shared, quicksort_ties, local, response, calls>>

\* np.clip(np.random.normal(heart_rate, scale=2, size=30), heart_rate - 5,
\* heart_rate + 5): 30 samples inside the band; the draws are any two values
\* among the band's ends and its centre, taken in turn.
synthetic_sequences(heart_rate) ==
    LET offsets == {-SYNTH_BAND, 0, SYNTH_BAND}
    IN {[i \in 1..SYNTH_SIZE |-> heart_rate + (IF i % 2 = 1 THEN ab[1] ELSE ab[2])] :
          ab \in {p \in offsets \X offsets : p[1] <= p[2]}}

\* np.array(heart_rate) for a list of numbers
np_array(heart_rate) ==
    [i \in 1..Len(heart_rate.items) |-> heart_rate.items[i].num]

\* predict_mood, lines 95-112: read the body, reject a missing heart rate,
\* build the heart-rate sequence, extract the features.
predict_mood_extract(t) ==
    /\ pc[t] = "predict_mood"
    /\ LET heart_rate == request[t].heart_rate
           accelerometer == request[t].accelerometer
       IN IF Falsy(heart_rate)
          THEN /\ Reply(t, 400, [error |-> "Heart rate data is required"])
               /\ UNCHANGED local
          ELSE \E hr_sequence \in
                    (IF heart_rate.type = "number"
                     THEN synthetic_sequences(heart_rate.num)
                     ELSE {np_array(heart_rate)}) :
                  LET fx == extract_features(hr_sequence, accelerometer)
                  IN IF fx.error # ""
                     THEN /\ Reply(t, 500, [error |-> fx.error])
                          /\ UNCHANGED local
                     ELSE /\ local' = [local EXCEPT
                                         ![t].hr_sequence = hr_sequence,
                                         ![t].features = fx.features]
                          /\ pc' = [pc EXCEPT ![t] = "predict_mood_infer"]
                          /\ UNCHANGED response
    /\ UNCHANGED <<shared, quicksort_ties, request, calls>>

\* predict_mood, lines 115-124, on the handler's own variables: scale the
\* features with both scalers and ask both models for their class and their
\* class probabilities; an exception ends the request with status 500.
infer(t) ==
    LET features == local[t].features
        scaled_features1 == scaler_transform(scaler1, features)
        scaled_features2 == scaler_transform(scaler2, features)
    IN IF scaled_features1.error # ""
       THEN /\ Reply(t, 500, [error |-> scaled_features1.error])
            /\ calls' = [calls EXCEPT ![t].scaler = 1]
            /\ UNCHANGED local
       ELSE IF scaled_features2.error # ""
       THEN /\ Reply(t, 500, [error |-> scaled_features2.error])
            /\ calls' = [calls EXCEPT ![t].scaler = 2]
            /\ UNCHANGED local
       ELSE /\ local' = [local EXCEPT
                           ![t].scaled1 = scaled_features1,
                           ![t].scaled2 = scaled_features2,
                           ![t].pred1 = predict(model1, scaled_features1),
                           ![t].pred2 = predict(model2, scaled_features2),
                           ![t].proba1 = predict_proba(model1, scaled_features1),
                           ![t].proba2 = predict_proba(model2, scaled_features2)]
            /\ calls' = [calls EXCEPT ![t].scaler = 2, ![t].model = 4]
            /\ pc' = [pc EXCEPT ![t] = "predict_mood_respond"]
            /\ UNCHANGED response

\* Mutant of predict_mood_infer: fit_transform in place of transform, which
\* refits scaler1 on the request's row (its mean becomes the row's first
\* feature, rounded down, and its scale 1).
predict_mood_infer_refit(t) ==
    /\ pc[t] = "predict_mood_infer"
    /\ infer(t)
    /\ scaler1' = [scaler1 EXCEPT
                     !.mean = local[t].features[1][1].args[1]
                                 \div local[t].features[1][1].args[2],
                     !.scale = 1]
    /\ UNCHANGED <<model1, model2, scaler2, songs_df, MOOD_NAMES,
                   quicksort_ties, request>>

\* predict_mood, lines 115-124: the step reads the scalers and the models
\* and leaves them as they are.
predict_mood_infer(t) ==
    /\ pc[t] = "predict_mood_infer"
    /\ infer(t)
    /\ UNCHANGED <<shared, quicksort_ties, request>>

\* predict_mood, lines 127-148: blend the probabilities, pick the primary
\* and the secondary mood, build the confidence map and answer.
predict_mood_respond(t) ==
    /\ pc[t] = "predict_mood_respond"
    /\ LET combined_proba == combine(local[t].proba1, local[t].proba2)
           final_mood_idx == np_argmax(combined_proba)
           final_mood == At(MOOD_NAMES, final_mood_idx)
           sorted == np_argsort(combined_proba, quicksort_ties)
           secondary_idx == sorted[Len(sorted) - 1]
           secondary_mood == At(MOOD_NAMES, secondary_idx)
           confidence ==
               [name \in Range(MOOD_NAMES) |->
                  At(combined_proba,
                     CHOOSE i \in 0..(Len(MOOD_NAMES) - 1) :
                        /\ At(MOOD_NAMES, i) = name
                        /\ \A j \in (i + 1)..(Len(MOOD_NAMES) - 1) :
                              At(MOOD_NAMES, j) # name)]
       IN Reply(t, 200,
                [primary_mood |-> final_mood,
                 secondary_mood |-> secondary_mood,
                 model1_prediction |-> At(MOOD_NAMES, local[t].pred1),
                 model2_prediction |-> At(MOOD_NAMES, local[t].pred2),
                 confidence |-> confidence])
    /\ UNCHANGED <<shared, quicksort_ties, request, local, calls>>

\* recommend_songs, lines 157-191.
recommend_songs(t) ==
    /\ pc[t] = "recommend_songs"
    /\ LET mood == request[t].mood
       IN IF Falsy(mood) \/ mood.type # "string"
             \/ mood.str \notin Range(MOOD_NAMES)
          THEN /\ Reply(t, 400, [error |-> "Invalid mood"])
               /\ UNCHANGED calls
          ELSE LET mood_index == list_index(MOOD_NAMES, mood.str)
                   start_idx == song_ranges(mood_index)[1]
                   end_idx == song_ranges(mood_index)[2]
                   mood_songs == rows_between(songs_df, start_idx, end_idx)
               IN /\ Reply(t, 200, [mood |-> mood.str,
                                    recommendations |-> mood_songs])
                  /\ calls' = [calls EXCEPT ![t].catalog = 1]
    /\ UNCHANGED <<shared, quicksort_ties, request, local>>

\* song_details, lines 194-228; os.path.exists answers either way.
song_details(t) ==
    /\ pc[t] = "song_details"
    /\ LET song_id == request[t].song_id
           song == rows_equal(songs_df, song_id)
       IN IF Len(song) = 0
          THEN Reply(t, 404, [error |-> "Song not found"])
          ELSE LET details == song[1]
                   audio_path == audio_file(song_id, details)
               IN \E has_audio \in BOOLEAN :
                    Reply(t, 200,
                          [id |-> details.index,
                           title |-> details.title,
                           artist |-> details.artists,
                           has_audio |-> has_audio,
                           audio_path |-> IF has_audio THEN audio_path ELSE <<>>])
    /\ calls' = [calls EXCEPT ![t].catalog = 1]
    /\ UNCHANGED <<shared, quicksort_ties, request, local>>

\* health_check, lines 231-237.
health_check(t) ==
    /\ pc[t] = "health_check"
    /\ Reply(t, 200, [status |-> "ok", model1 |-> "loaded",
                      model2 |-> "loaded", songs_count |-> Len(songs_df)])
    /\ calls' = [calls EXCEPT ![t].catalog = 1]
    /\ UNCHANGED <<shared, quicksort_ties, request, local>>

\* The response is sent; the request and the handler's locals are gone and
\* the thread is free for the next request.
Send(t) ==
    /\ pc[t] = "done"
    /\ pc' = [pc EXCEPT ![t] = "idle"]
    /\ request' = [request EXCEPT ![t] = NoRequest]
    /\ local' = [local EXCEPT ![t] = NoLocal]
    /\ response' = [response EXCEPT ![t] = NoResponse]
    /\ calls' = [calls EXCEPT ![t] = NoCalls]
    /\ UNCHANGED <<shared, quicksort_ties>>

\* ------------------------------------------------------ the loaded state

Scaler(mean, scale) ==
    [n_features_in |-> N_STATS * (1 + N_AXES), mean |-> mean, scale |-> scale]

Classifier(feature, threshold, left, right) ==
    [feature |-> feature, threshold |-> threshold, left |-> left,
     right |-> right]

\* The class distributions with numerators over ProbaScale.
Dists ==
    {p \in [1..N_CLASSES -> 0..ProbaScale] :
        p[1] + p[2] + p[3] + p[4] = ProbaScale}

\* Most of the mass on class i, the rest on class j.
Peak(i, j) ==
    [k \in 1..N_CLASSES |->
        IF k = i + 1 THEN ProbaScale - 1 ELSE IF k = j + 1 THEN 1 ELSE 0]

\* The mass split between classes i and j.
Split(i, j) ==
    [k \in 1..N_CLASSES |->
        IF k = i + 1 THEN ProbaScale \div 2
        ELSE IF k = j + 1 THEN ProbaScale - ProbaScale \div 2 ELSE 0]

\* The rankings of the four positions: every order in which a sort that is
\* not stable may leave equal keys.
TieOrders ==
    {p \in [1..N_CLASSES -> 0..(N_CLASSES - 1)] :
        \A i, j \in 1..N_CLASSES : i # j => p[i] # p[j]}

SongRow(i) ==
    [index |-> i,
     title |-> <<"S", "o", "n", "g", " ">> \o str_int(i),
     artists |-> <<"A", "l", ",", " ", "B", "o">>]

BoundaryIndices == <<0, 1, 20, 21, 40, 41, 60, 61, 80, 81>>

\* pd.read_csv's table, or the empty frame of line 37 when reading failed.
CatalogChoices ==
    { <<>>, [k \in 1..Len(BoundaryIndices) |-> SongRow(BoundaryIndices[k])] }

Loaded(m1s, m2s, catalogs, ties) ==
    /\ model1 \in m1s
    /\ scaler1 = Scaler(70, 2)
    /\ model2 \in m2s
    /\ scaler2 = Scaler(72, 3)
    /\ songs_df \in catalogs
    /\ MOOD_NAMES = <<"Happy", "Angry", "Sad", "Relaxed">>
    /\ quicksort_ties \in ties
    /\ pc = [t \in Threads |-> "idle"]
    /\ request = [t \in Threads |-> NoRequest]
    /\ local = [t \in Threads |-> NoLocal]
    /\ response = [t \in Threads |-> NoResponse]
    /\ calls = [t \in Threads |-> NoCalls]

\* ------------------------------------------------------------ the server

\* Two threads serving every endpoint.
ServerRequests ==
    { PredictRequest(NumList(<<70, 72, 68, 75>>), Null),
      PredictRequest(NumList(<<88, 90, 91, 95>>), NumList(<<1, 2, 3, 4, 5, 6>>)),
      PredictRequest(NumList(<<70, 72>>), NumList(<<1, 2, 3, 4, 5, 6, 7>>)),
      PredictRequest(Null, Null),
      PredictRequest(List(<<>>), NumList(<<1, 2, 3>>)),
      PredictRequest(Num(70), Null),
      RecommendRequest(Str("Happy")), RecommendRequest(Str("Angry")),
      RecommendRequest(Str("Sad")), RecommendRequest(Str("Relaxed")),
      RecommendRequest(Null), RecommendRequest(Str("Excited")),
      DetailsRequest(1), DetailsRequest(99),
      HealthRequest }

Init ==
    Loaded({Classifier(0, 2, Peak(0, 3), Peak(1, 2))},
           {Classifier(8, 1, Split(2, 3), Peak(0, 1)),
            Classifier(0, 0, Peak(3, 0), Split(0, 1))},
           CatalogChoices,
           {<<0, 1, 2, 3>>, <<3, 2, 1, 0>>})

Next ==
    \E t \in Threads :
        \/ Receive(t, ServerRequests)
        \/ predict_mood_extract(t)
        \/ predict_mood_infer(t)
        \/ predict_mood_respond(t)
        \/ recommend_songs(t)
        \/ song_details(t)
        \/ health_check(t)
        \/ Send(t)

Spec == Init /\ [][Next]_vars

\* ------------------------------------------- the ensemble, every stub pair

\* One thread serves the heart-rate window of the end-to-end scenario; the
\* two classifiers answer with any pair of distributions, and equal keys
\* are sorted in any order.
EnsembleRequests ==
    { PredictRequest(NumList(<<70, 72, 68, 75, 71, 69, 73, 70, 72, 71>>), Null) }

InitEnsemble ==
    Loaded({Classifier(0, 0, p, p) : p \in Dists},
           {Classifier(0, 0, p, p) : p \in Dists},
           {<<>>},
           TieOrders)

NextEnsemble ==
    \/ Receive("t1", EnsembleRequests)
    \/ predict_mood_extract("t1")
    \/ predict_mood_infer("t1")
    \/ predict_mood_respond("t1")
    \/ Send("t1")

SpecEnsemble == InitEnsemble /\ [][NextEnsemble]_vars

\* ------------------------------------- feature extraction, every payload

HrValues == {68, 75}
AccValues == {1, 2}

SeqsUpTo(values, n) == UNION {[1..k -> values] : k \in 1..n}

\* The samples of a flat list taken w at a time, as a client sending nested
\* lists groups them.
Grouped(s, w) ==
    [r \in 1..(Len(s) \div w) |-> [c \in 1..w |-> s[(r - 1) * w + c]]]

HeartRates ==
    {Null, List(<<>>), Num(70)}
        \cup {NumList(s) : s \in SeqsUpTo(HrValues, MaxHrLen)}

\* None, the empty list, the flat lists, the lists of triples and the lists
\* of pairs.
Accelerometers ==
    {Null, List(<<>>)}
        \cup {NumList(s) : s \in SeqsUpTo(AccValues, MaxAccLen)}
        \cup {NestedList(Grouped(s, 3)) :
                s \in {f \in SeqsUpTo(AccValues, MaxAccLen) : Len(f) % 3 = 0}}
        \cup {NestedList(Grouped(s, 2)) :
                s \in {f \in SeqsUpTo(AccValues, MaxAccLen) : Len(f) % 2 = 0}}

FeatureRequests ==
    {PredictRequest(h, a) : h \in HeartRates, a \in Accelerometers}

InitFeatures ==
    Loaded({Classifier(0, 2, Peak(0, 3), Peak(1, 2))},
           {Classifier(8, 1, Split(2, 3), Peak(0, 1))},
           {<<>>},
           {<<0, 1, 2, 3>>})

NextFeatures ==
    \/ Receive("t1", FeatureRequests)
    \/ predict_mood_extract("t1")
    \/ predict_mood_infer("t1")
    \/ predict_mood_respond("t1")
    \/ Send("t1")

SpecFeatures == InitFeatures /\ [][NextFeatures]_vars

\* ----------------------------------------------------------------- claims

Served(t, endpoint) == pc[t] = "done" /\ request[t].endpoint = endpoint
Extracted(t) == local[t].features # <<>>
Labels == <<"Happy", "Angry", "Sad", "Relaxed">>

\* The accelerometer value is non-empty and its first element is not a list
\* of 3: extract_features takes it for a flat list.
TreatedAsFlat(acc) ==
    /\ acc.type = "list"
    /\ Len(acc.items) > 0
    /\ ~(acc.items[1].type = "list" /\ Len(acc.items[1].items) = 3)

\* The number of samples in the accelerometer value.
RECURSIVE CountSamples(_)
CountSamples(items) ==
    IF Len(items) = 0 THEN 0
    ELSE (IF Head(items).type = "list" THEN Len(Head(items).items) ELSE 1)
         + CountSamples(Tail(items))

IsFlatNumbers(acc) ==
    /\ acc.type = "list"
    /\ Len(acc.items) > 0
    /\ \A k \in 1..Len(acc.items) : acc.items[k].type = "number"

\* C1: every feature array extract_features returns is one row of exactly 32
\* entries, the 8 heart-rate statistics followed by 24 accelerometer
\* entries, and with the accelerometer absent (None) or empty entries 8..31
\* are all exactly 0.
C1_FeatureRowShape ==
    \A t \in Threads :
        Extracted(t) =>
            LET features == local[t].features
                acc == request[t].accelerometer
            IN /\ Len(features) = 1
               /\ Len(features[1]) = 32
               /\ SubSeq(features[1], 1, 8) = stat_features(local[t].hr_sequence)
               /\ (acc.type = "null" \/ Len(acc.items) = 0)
                      => \A k \in 8..31 : At(features[1], k) = Zero

\* C1 witness: features were extracted for a request whose accelerometer
\* list is present but empty.
C1_Witness ==
    \E t \in Threads :
        /\ Extracted(t)
        /\ request[t].accelerometer = List(<<>>)
        /\ Len(local[t].hr_sequence) = 1

\* C5: a non-empty accelerometer value that is taken for flat and whose
\* number of samples is not a multiple of 3 makes feature extraction fail:
\* no feature array exists for the request, the scalers and the models are
\* never called, and the response is an error without any mood decision.
C5_MalformedAccelerometerFails ==
    \A t \in Threads :
        LET acc == request[t].accelerometer
        IN (TreatedAsFlat(acc) /\ CountSamples(acc.items) % 3 # 0) =>
              /\ ~Extracted(t)
              /\ calls[t].scaler = 0 /\ calls[t].model = 0
              /\ pc[t] \in {"predict_mood", "done"}
              /\ pc[t] = "done" =>
                    /\ response[t].status >= 400
                    /\ DOMAIN response[t].body = {"error"}

\* C5 witness: a request with heart rates and a flat accelerometer list of 7
\* samples was answered with the reshape error.
C5_Witness ==
    \E t \in Threads :
        /\ Served(t, "predict_mood")
        /\ ~Falsy(request[t].heart_rate)
        /\ IsFlatNumbers(request[t].accelerometer)
        /\ Len(request[t].accelerometer.items) = 7
        /\ response[t].body = [error |-> "cannot reshape array"]

\* C9: a flat accelerometer list whose length is a positive multiple of 3
\* gives the same feature row as the nested list of its (x, y, z) triples
\* taken row-major, hence the same 24 accelerometer features in axis order.
C9_FlatEqualsNested ==
    \A t \in Threads :
        LET acc == request[t].accelerometer
        IN (Extracted(t) /\ IsFlatNumbers(acc) /\ Len(acc.items) % 3 = 0) =>
              LET flat == [k \in 1..Len(acc.items) |-> acc.items[k].num]
                  nested == NestedList(Grouped(flat, 3))
              IN local[t].features
                    = extract_features(local[t].hr_sequence, nested).features

\* C9 witness: features were extracted from a flat list of 6 samples that
\* are not all equal.
C9_Witness ==
    \E t \in Threads :
        /\ Extracted(t)
        /\ request[t].accelerometer = NumList(<<1, 2, 2, 1, 1, 2>>)

\* The blended probability of each class, 0.6 * proba1 + 0.4 * proba2 of the
\* distributions the two models returned to thread t, as numerators over
\* 10 * ProbaScale.
Blended(t) ==
    [i \in 1..4 |-> 6 * local[t].proba1[i] + 4 * local[t].proba2[i]]

Decided(t) == Served(t, "predict_mood") /\ response[t].status = 200

LabelIndex(name) == CHOOSE i \in 1..4 : Labels[i] = name

\* C2: the primary mood is the label of the class that maximises the blend
\* 0.6 * proba1 + 0.4 * proba2, the lowest class index among several maxima
\* (order Happy, Angry, Sad, Relaxed).
C2_PrimaryIsFirstMaximum ==
    \A t \in Threads :
        Decided(t) =>
            LET c == Blended(t)
            IN \E i \in 1..4 :
                  /\ \A j \in 1..4 : c[j] <= c[i]
                  /\ \A j \in 1..(i - 1) : c[j] < c[i]
                  /\ response[t].body.primary_mood = Labels[i]

\* C2 witness: a decision where Angry and Sad share the maximum.
C2_Witness ==
    \E t \in Threads :
        /\ Decided(t)
        /\ Blended(t)[2] = Blended(t)[3]
        /\ Blended(t)[1] < Blended(t)[2]
        /\ Blended(t)[4] < Blended(t)[2]
        /\ response[t].body.primary_mood = "Angry"

\* C3: when one class alone holds the maximum of the blend, the secondary
\* mood is another class than the primary, and its blended value is the
\* largest among the three classes that are not the primary.
C3_SecondaryIsRunnerUp ==
    \A t \in Threads :
        Decided(t) =>
            LET c == Blended(t)
                top == {i \in 1..4 : \A j \in 1..4 : c[j] <= c[i]}
            IN Cardinality(top) = 1 =>
                  LET k == LabelIndex(response[t].body.secondary_mood)
                  IN /\ response[t].body.secondary_mood
                           # response[t].body.primary_mood
                     /\ k \notin top
                     /\ \A j \in (1..4) \ top : c[j] <= c[k]

\* C3 witness: a decision whose four blended values are all different.
C3_Witness ==
    \E t \in Threads :
        /\ Decided(t)
        /\ \A i, j \in 1..4 : i # j => Blended(t)[i] # Blended(t)[j]

\* C4: when both models return probability distributions over the 4
\* classes, the confidence map has exactly the keys Happy, Angry, Sad and
\* Relaxed, each value is 0.6 * proba1[i] + 0.4 * proba2[i] and lies in
\* [0, 1], and the four values sum to 1 (numerators over 10 * ProbaScale).
C4_ConfidenceIsDistribution ==
    \A t \in Threads :
        (Decided(t) /\ local[t].proba1 \in Dists /\ local[t].proba2 \in Dists) =>
            LET confidence == response[t].body.confidence
            IN /\ DOMAIN confidence = {"Happy", "Angry", "Sad", "Relaxed"}
               /\ \A i \in 1..4 :
                     /\ confidence[Labels[i]] = Blended(t)[i]
                     /\ 0 <= confidence[Labels[i]]
                     /\ confidence[Labels[i]] <= 10 * ProbaScale
               /\ confidence["Happy"] + confidence["Angry"]
                     + confidence["Sad"] + confidence["Relaxed"]
                     = 10 * ProbaScale

\* C4 witness: a decision blended from two different distributions, with a
\* confidence strictly between 0 and 1.
C4_Witness ==
    \E t \in Threads :
        /\ Decided(t)
        /\ local[t].proba1 # local[t].proba2
        /\ response[t].body.confidence["Happy"] > 0
        /\ response[t].body.confidence["Happy"] < 10 * ProbaScale

\* C10, as claimed: equal blended values keep class-index order in the
\* ascending sort, so the secondary mood is the class at the second-from-last
\* position of the stable ascending sort of the blend.
C10_TiesKeepClassOrder ==
    \A t \in Threads :
        Decided(t) =>
            LET c == Blended(t)
                k == LabelIndex(response[t].body.secondary_mood)
            IN Cardinality({j \in 1..4 :
                               c[j] < c[k] \/ (c[j] = c[k] /\ j < k)}) = 2

\* C10, amended: the secondary mood is the class at the second-from-last
\* position of an ascending sort of the blend (at most one class lies above
\* it and at least one other class is not below it), whatever order the
\* sort leaves equal values in.  When exactly two classes tie for the
\* highest value the secondary mood is one of the two (its value equals the
\* primary's); when two classes tie for second place below a single maximum
\* it is one of those two.
C10_SecondaryAtSecondFromLast ==
    \A t \in Threads :
        Decided(t) =>
            LET c == Blended(t)
                k == LabelIndex(response[t].body.secondary_mood)
                p == LabelIndex(response[t].body.primary_mood)
                top == {i \in 1..4 : \A j \in 1..4 : c[j] <= c[i]}
                rest == (1..4) \ top
                second == {i \in rest : \A j \in rest : c[j] <= c[i]}
            IN /\ Cardinality({j \in 1..4 : c[j] > c[k]}) <= 1
               /\ Cardinality({j \in 1..4 : c[j] >= c[k]}) >= 2
               /\ Cardinality(top) = 2 => (k \in top /\ c[k] = c[p])
               /\ (Cardinality(top) = 1 /\ Cardinality(second) = 2)
                     => k \in second

\* C10 witness: exactly two classes tie for the highest blended value and
\* the secondary mood is the primary mood itself.
C10_Witness ==
    \E t \in Threads :
        /\ Decided(t)
        /\ Cardinality({i \in 1..4 : \A j \in 1..4 :
                           Blended(t)[j] <= Blended(t)[i]}) = 2
        /\ response[t].body.secondary_mood = response[t].body.primary_mood

\* C6, as claimed: a missing or empty heart-rate field and a malformed
\* accelerometer shape are reported alike, as a rejected request (status
\* 400, not a server-side failure), each with an error message only.
C6_InputErrorsRejectedAlike ==
    \A t \in Threads :
        LET acc == request[t].accelerometer
        IN (/\ Served(t, "predict_mood")
            /\ \/ Falsy(request[t].heart_rate)
               \/ TreatedAsFlat(acc) /\ CountSamples(acc.items) % 3 # 0) =>
              /\ response[t].status = 400
              /\ DOMAIN response[t].body = {"error"}

\* C7: the mood-to-range mapping of recommend_songs is Happy -> [1, 20],
\* Angry -> [61, 80], Sad -> [21, 40], Relaxed -> [41, 60]; for each of the
\* four moods the recommendations are exactly the catalog rows whose index
\* lies in that inclusive range, and a missing mood or one outside the four
\* labels is answered with an error without reading the catalog.
C7_MoodRanges ==
    \A t \in Threads :
        Served(t, "recommend_songs") =>
            LET mood == request[t].mood
                lo == [Happy |-> 1, Angry |-> 61, Sad |-> 21, Relaxed |-> 41]
                hi == [Happy |-> 20, Angry |-> 80, Sad |-> 40, Relaxed |-> 60]
            IN IF mood.type = "string" /\ mood.str \in DOMAIN lo
               THEN LET inRange(row) ==
                            lo[mood.str] <= row.index /\ row.index <= hi[mood.str]
                    IN /\ response[t].status = 200
                       /\ response[t].body.mood = mood.str
                       /\ response[t].body.recommendations
                             = SelectSeq(songs_df, inRange)
               ELSE /\ response[t].status = 400
                    /\ DOMAIN response[t].body = {"error"}
                    /\ calls[t].catalog = 0

\* C7 witness: recommendations for Angry that hold both ends of its range.
C7_Witness ==
    \E t \in Threads :
        /\ Served(t, "recommend_songs")
        /\ request[t].mood = Str("Angry")
        /\ Len(response[t].body.recommendations) = 2
        /\ response[t].body.recommendations[1].index = 61
        /\ response[t].body.recommendations[2].index = 80

\* Two threads hold the answers to the same heart-rate list and the same
\* accelerometer value.
SameWindow(t1, t2) ==
    /\ t1 # t2
    /\ Served(t1, "predict_mood") /\ Served(t2, "predict_mood")
    /\ request[t1].heart_rate.type = "list"
    /\ request[t1] = request[t2]

\* C8: after load no step of any handler, in any interleaving of concurrent
\* requests, changes model1, scaler1, model2, scaler2, songs_df or
\* MOOD_NAMES; and two requests with the same heart-rate sequence and
\* accelerometer payload get the same answer whatever ran before or
\* between them.
C8_ReadOnlyAndDeterministic ==
    /\ [][shared' = shared]_vars
    /\ [](\A t1, t2 \in Threads :
             SameWindow(t1, t2) => response[t1] = response[t2])

\* C8 witness: both threads hold a mood decision for the same window.
C8_Witness ==
    \E t1, t2 \in Threads :
        /\ SameWindow(t1, t2)
        /\ response[t1].status = 200
        /\ DOMAIN response[t1].body
              = {"primary_mood", "secondary_mood", "model1_prediction",
                 "model2_prediction", "confidence"}

====
